---- MODULE Spec2Model ----
(***************************************************************************)
(* Model of the convert-case library (src/src/lib.rs): the Casing trait on  *)
(* strings, the Converter struct, and possible_cases.  The modules          *)
(* boundary, pattern and case are declared by lib.rs (`mod boundary;` ...)  *)
(* but their files are not part of the source tree; the segmenter, the      *)
(* pattern engine and the case registry are therefore written from the      *)
(* specification (sections 3 and 4) and from the expected values of the     *)
(* tests and doc examples of lib.rs.                                        *)
(*                                                                          *)
(* A string is a sequence of one-character strings.                         *)
(***************************************************************************)
EXTENDS Naturals, Sequences, FiniteSets

VARIABLES text, conv, out, out2, flag, found, op, lastFrom, lastTo

vars == <<text, conv, out, out2, flag, found, op, lastFrom, lastTo>>

----------------------------------------------------------------------------
(* Characters *)

LowerAlpha == <<"a", "b", "c", "d", "e", "f", "g", "h", "i", "j", "k", "l", "m", "n", "o", "p", "q", "r", "s", "t", "u", "v", "w", "x", "y", "z">>

UpperAlpha == <<"A", "B", "C", "D", "E", "F", "G", "H", "I", "J", "K", "L", "M", "N", "O", "P", "Q", "R", "S", "T", "U", "V", "W", "X", "Y", "Z">>

DigitChars == {"0", "1", "2", "3", "4", "5", "6", "7", "8", "9"}

is_lowercase(c) == \E i \in 1..Len(LowerAlpha) : LowerAlpha[i] = c

is_uppercase(c) == \E i \in 1..Len(UpperAlpha) : UpperAlpha[i] = c

is_digit(c) == c \in DigitChars

to_uppercase(c) ==
    IF is_lowercase(c)
    THEN UpperAlpha[CHOOSE i \in 1..Len(LowerAlpha) : LowerAlpha[i] = c]
    ELSE c

to_lowercase(c) ==
    IF is_uppercase(c)
    THEN LowerAlpha[CHOOSE i \in 1..Len(UpperAlpha) : UpperAlpha[i] = c]
    ELSE c

----------------------------------------------------------------------------
(* Boundary catalog (spec 3, 4.1) *)

Boundary == {"Underscore", "Hyphen", "Space", "LowerUpper", "UpperDigit", "DigitUpper", "DigitLower", "LowerDigit", "Acronyms"}

\* A delimiter boundary matches one character and consumes it.
delimiter_match(b, c) ==
    \/ b = "Underscore" /\ c = "_"
    \/ b = "Hyphen" /\ c = "-"
    \/ b = "Space" /\ c = " "

\* A two-character transition boundary: zero-width break between c and d.
pair_match(b, c, d) ==
    \/ b = "LowerUpper" /\ is_lowercase(c) /\ is_uppercase(d)
    \/ b = "UpperDigit" /\ is_uppercase(c) /\ is_digit(d)
    \/ b = "DigitUpper" /\ is_digit(c) /\ is_uppercase(d)
    \/ b = "DigitLower" /\ is_digit(c) /\ is_lowercase(d)
    \/ b = "LowerDigit" /\ is_lowercase(c) /\ is_digit(d)

\* The acronym boundary: zero-width break between c and d when the window
\* c d e is upper, upper, lower ("HTTPServer" -> "HTTP" / "Server").
triple_match(b, c, d, e) ==
    b = "Acronyms" /\ is_uppercase(c) /\ is_uppercase(d) /\ is_lowercase(e)

----------------------------------------------------------------------------
(* Segmenter (spec 4.2) *)

is_delimiter(c, bs) == \E b \in bs : delimiter_match(b, c)

\* Is there a zero-width break between s[i-1] and s[i]?
transition_before(s, bs, i) ==
    /\ i > 1
    /\ \E b \in bs :
          \/ pair_match(b, s[i-1], s[i])
          \/ i < Len(s) /\ triple_match(b, s[i-1], s[i], s[i+1])

\* Close the current word; an empty buffer contributes no word.
close_word(words, buf) == IF buf = <<>> THEN words ELSE Append(words, buf)

RECURSIVE scan(_, _, _, _, _)
scan(s, bs, i, buf, words) ==
    IF i > Len(s) THEN close_word(words, buf)
    ELSE IF is_delimiter(s[i], bs) THEN scan(s, bs, i + 1, <<>>, close_word(words, buf))
    ELSE IF transition_before(s, bs, i) THEN scan(s, bs, i + 1, <<s[i]>>, close_word(words, buf))
    ELSE scan(s, bs, i + 1, Append(buf, s[i]), words)

split(s, bs) == scan(s, bs, 1, <<>>, <<>>)

----------------------------------------------------------------------------
(* Pattern engine (spec 3, 4.3).  Toggle is taken from the table of the    *)
(* test lossless_against_lossless ("mY vARIABLE 22 nAME"): the first letter *)
(* of every word lowercase, the rest uppercase.                             *)

Pattern == {"Lowercase", "Uppercase", "Capital", "Sentence", "Camel", "Toggle", "Alternating"}

lowercase(w) == [j \in 1..Len(w) |-> to_lowercase(w[j])]

uppercase(w) == [j \in 1..Len(w) |-> to_uppercase(w[j])]

capital(w) == [j \in 1..Len(w) |-> IF j = 1 THEN to_uppercase(w[j]) ELSE to_lowercase(w[j])]

toggle(w) == [j \in 1..Len(w) |-> IF j = 1 THEN to_lowercase(w[j]) ELSE to_uppercase(w[j])]

is_cased(c) == is_lowercase(c) \/ is_uppercase(c)

CasedBefore(w, j) == Cardinality({k \in 1..(j - 1) : is_cased(w[k])})

\* One word of the alternating pattern; upper tells whether the next cased
\* character is to be uppercase.  Uncased characters do not advance it.
alternating_word(w, upper) ==
    [j \in 1..Len(w) |->
        IF ~is_cased(w[j]) THEN w[j]
        ELSE IF upper = (CasedBefore(w, j) % 2 = 0) THEN to_uppercase(w[j])
        ELSE to_lowercase(w[j])]

RECURSIVE alternating(_, _)
alternating(words, upper) ==
    IF words = <<>> THEN <<>>
    ELSE <<alternating_word(Head(words), upper)>>
         \o alternating(Tail(words), upper = (CasedBefore(Head(words), Len(Head(words)) + 1) % 2 = 0))

mutate(p, words) ==
    CASE p = "Lowercase" -> [k \in 1..Len(words) |-> lowercase(words[k])]
      [] p = "Uppercase" -> [k \in 1..Len(words) |-> uppercase(words[k])]
      [] p = "Capital" -> [k \in 1..Len(words) |-> capital(words[k])]
      [] p = "Sentence" -> [k \in 1..Len(words) |-> IF k = 1 THEN capital(words[k]) ELSE lowercase(words[k])]
      [] p = "Camel" -> [k \in 1..Len(words) |-> IF k = 1 THEN lowercase(words[k]) ELSE capital(words[k])]
      [] p = "Toggle" -> [k \in 1..Len(words) |-> toggle(words[k])]
      [] p = "Alternating" -> alternating(words, FALSE)

RECURSIVE join(_, _)
join(words, d) ==
    IF words = <<>> THEN <<>>
    ELSE IF Len(words) = 1 THEN words[1]
    ELSE words[1] \o d \o join(Tail(words), d)

----------------------------------------------------------------------------
(* Case registry (spec 3, 4.4): the cases lib.rs names.  Camel and the     *)
(* cases like it parse with the transition boundaries and the delimiters    *)
(* (spec 3).                                                                *)

Case == {"Upper", "Lower", "Title", "Toggle", "Camel", "Pascal", "UpperCamel", "Snake", "UpperSnake", "Kebab", "Cobol", "Train", "Flat", "Alternating"}

boundaries(case) ==
    CASE case \in {"Upper", "Lower", "Title", "Toggle", "Alternating"} -> {"Space"}
      [] case \in {"Snake", "UpperSnake"} -> {"Underscore"}
      [] case \in {"Kebab", "Cobol", "Train"} -> {"Hyphen"}
      [] case = "Flat" -> {}
      [] case \in {"Camel", "Pascal", "UpperCamel"} -> Boundary

pattern(case) ==
    CASE case \in {"Upper", "UpperSnake", "Cobol"} -> "Uppercase"
      [] case \in {"Lower", "Snake", "Kebab", "Flat"} -> "Lowercase"
      [] case \in {"Title", "Pascal", "UpperCamel", "Train"} -> "Capital"
      [] case = "Camel" -> "Camel"
      [] case = "Toggle" -> "Toggle"
      [] case = "Alternating" -> "Alternating"

delim(case) ==
    CASE case \in {"Upper", "Lower", "Title", "Toggle", "Alternating"} -> <<" ">>
      [] case \in {"Snake", "UpperSnake"} -> <<"_">>
      [] case \in {"Kebab", "Cobol", "Train"} -> <<"-">>
      [] case \in {"Camel", "Pascal", "UpperCamel", "Flat"} -> <<>>

deterministic_cases == Case

----------------------------------------------------------------------------
(* Strings of the tests and documentation examples of lib.rs *)

ex_Lower == <<"m", "y", " ", "v", "a", "r", "i", "a", "b", "l", "e", " ", "2", "2", " ", "n", "a", "m", "e">>

ex_Upper == <<"M", "Y", " ", "V", "A", "R", "I", "A", "B", "L", "E", " ", "2", "2", " ", "N", "A", "M", "E">>

ex_Title == <<"M", "y", " ", "V", "a", "r", "i", "a", "b", "l", "e", " ", "2", "2", " ", "N", "a", "m", "e">>

ex_Camel == <<"m", "y", "V", "a", "r", "i", "a", "b", "l", "e", "2", "2", "N", "a", "m", "e">>

ex_Pascal == <<"M", "y", "V", "a", "r", "i", "a", "b", "l", "e", "2", "2", "N", "a", "m", "e">>

ex_Snake == <<"m", "y", "_", "v", "a", "r", "i", "a", "b", "l", "e", "_", "2", "2", "_", "n", "a", "m", "e">>

ex_UpperSnake == <<"M", "Y", "_", "V", "A", "R", "I", "A", "B", "L", "E", "_", "2", "2", "_", "N", "A", "M", "E">>

ex_Kebab == <<"m", "y", "-", "v", "a", "r", "i", "a", "b", "l", "e", "-", "2", "2", "-", "n", "a", "m", "e">>

ex_Cobol == <<"M", "Y", "-", "V", "A", "R", "I", "A", "B", "L", "E", "-", "2", "2", "-", "N", "A", "M", "E">>

ex_Toggle == <<"m", "Y", " ", "v", "A", "R", "I", "A", "B", "L", "E", " ", "2", "2", " ", "n", "A", "M", "E">>

ex_Train == <<"M", "y", "-", "V", "a", "r", "i", "a", "b", "l", "e", "-", "2", "2", "-", "N", "a", "m", "e">>

ex_Alternating == <<"m", "Y", " ", "v", "A", "r", "I", "a", "B", "l", "E", " ", "2", "2", " ", "n", "A", "m", "E">>

im_snake_case == <<"i", "m", "_", "s", "n", "a", "k", "e", "_", "c", "a", "s", "e">>

im_NOTsnake_case == <<"i", "m", "_", "N", "O", "T", "s", "n", "a", "k", "e", "_", "c", "a", "s", "e">>

im_kebab_case == <<"i", "m", "-", "k", "e", "b", "a", "b", "-", "c", "a", "s", "e">>

im_not_kebab == <<"i", "m", "_", "n", "o", "t", "_", "k", "e", "b", "a", "b">>

im_kebab_actually == <<"i", "m", "_", "k", "e", "b", "a", "b", "_", "a", "c", "t", "u", "a", "l", "l", "y">>

im_not_kebab_either == <<"i", "m", "_", "n", "o", "t", " ", "k", "e", "b", "a", "b", "_", "e", "i", "t", "h", "e", "r">>

weird_var_name_in == <<"_", "_", "w", "e", "i", "r", "d", "-", "-", "v", "a", "r", " ", "_", "n", "a", "m", "e", "-">>

weird_var_name == <<"w", "e", "i", "r", "d", "_", "v", "a", "r", "_", "n", "a", "m", "e">>

XMLHttpRequest == <<"X", "M", "L", "H", "t", "t", "p", "R", "e", "q", "u", "e", "s", "t">>

xml_http_request == <<"x", "m", "l", "_", "h", "t", "t", "p", "_", "r", "e", "q", "u", "e", "s", "t">>

IOStream == <<"I", "O", "S", "t", "r", "e", "a", "m">>

io_stream == <<"i", "o", "_", "s", "t", "r", "e", "a", "m">>

all_boundaries_in == <<"A", "B", "C", "-", "a", "b", "c", "_", "a", "b", "c", "A", "b", "c", " ", "A", "B", "C", "A", "b", "c">>

all_boundaries_out == <<"a", "b", "c", "_", "a", "b", "c", "_", "a", "b", "c", "_", "a", "b", "c", "_", "a", "b", "c", "_", "a", "b", "c">>

E5150 == <<"E", "5", "1", "5", "0">>

e_5150 == <<"e", "_", "5", "1", "5", "0">>

TenThousandDays == <<"1", "0", ",", "0", "0", "0", "D", "a", "y", "s">>

ten_thousand_days == <<"1", "0", ",", "0", "0", "0", "_", "d", "a", "y", "s">>

ONE_TWO_THREE == <<"O", "N", "E", "\n", "T", "W", "O", "\n", "T", "H", "R", "E", "E">>

One_two_three == <<"O", "n", "e", "\n", "t", "w", "o", "\n", "t", "h", "r", "e", "e">>

asdf == <<"a", "s", "d", "f">>

asdfCase == <<"a", "s", "d", "f", "C", "a", "s", "e">>

cat_cali_in == <<"2", "0", "2", "0", "-", "0", "4", "-", "1", "6", "_", "m", "y", "_", "c", "a", "t", "_", "c", "a", "l", "i">>

cat_cali_snake == <<"2", "0", "2", "0", "-", "0", "4", "-", "1", "6", " ", "M", "y", " ", "C", "a", "t", " ", "C", "a", "l", "i">>

cat_cali_default == <<"2", "0", "2", "0", " ", "0", "4", " ", "1", "6", " ", "M", "y", " ", "C", "a", "t", " ", "C", "a", "l", "i">>

----------------------------------------------------------------------------
(* Converter and the Casing trait (src/src/lib.rs) *)

default_boundaries == {"Underscore", "Hyphen", "Space", "LowerUpper", "UpperDigit", "DigitUpper", "DigitLower", "LowerDigit", "Acronyms"}

\* Mutants of Converter::new: a boundary left out of the default list.
Converter_new_without_LowerDigit(s) ==
    [s |-> s, boundaries |-> default_boundaries \ {"LowerDigit"}, delim |-> <<>>, pattern |-> "Lowercase"]

Converter_new_without_Acronyms(s) ==
    [s |-> s, boundaries |-> default_boundaries \ {"Acronyms"}, delim |-> <<>>, pattern |-> "Lowercase"]

Converter_new_without_UpperDigit(s) ==
    [s |-> s, boundaries |-> default_boundaries \ {"UpperDigit"}, delim |-> <<>>, pattern |-> "Lowercase"]

Converter_new(s) ==
    [s |-> s, boundaries |-> default_boundaries, delim |-> <<>>, pattern |-> "Lowercase"]

\* Mutants of Converter::new_from_case: the case's boundaries not taken.
Converter_new_from_case_default(s, case) ==
    [s |-> s, boundaries |-> default_boundaries, delim |-> <<>>, pattern |-> "Lowercase"]

Converter_new_from_case_no_boundaries(s, case) ==
    [s |-> s, boundaries |-> {}, delim |-> <<>>, pattern |-> "Lowercase"]

Converter_new_from_case(s, case) ==
    [s |-> s, boundaries |-> boundaries(case), delim |-> <<>>, pattern |-> "Lowercase"]

\* Mutant of Converter::convert: the pattern is not applied.
Converter_convert_without_mutate(self) ==
    join(split(self.s, self.boundaries), self.delim)

Converter_convert(self) ==
    join(mutate(self.pattern, split(self.s, self.boundaries)), self.delim)

Converter_to_case(self, case) ==
    Converter_convert([self EXCEPT !.pattern = pattern(case), !.delim = delim(case)])

\* Mutant of Converter::from_case: the case's boundaries are added to the
\* active ones.
Converter_from_case_union(self, case) ==
    [self EXCEPT !.boundaries = self.boundaries \cup boundaries(case)]

Converter_from_case(self, case) ==
    [self EXCEPT !.boundaries = boundaries(case)]

Converter_is_case(self, case) ==
    Converter_to_case(Converter_new(self.s), case) = self.s

str_to_case(self, case) == Converter_to_case(Converter_new(self), case)

str_from_case(self, case) == Converter_new_from_case(self, case)

\* Mutant of str::is_case: the text is parsed with the case's own boundaries.
str_is_case_own_boundaries(self, case) ==
    Converter_to_case(Converter_new_from_case(self, case), case) = self

str_is_case(self, case) == str_to_case(self, case) = self

String_to_case(self, case) == Converter_to_case(Converter_new(self), case)

String_from_case(self, case) == Converter_new_from_case(self, case)

String_is_case(self, case) == String_to_case(self, case) = self

\* Mutant of possible_cases: the text is parsed with the default boundaries.
possible_cases_default_boundaries(s) ==
    {case \in deterministic_cases : String_to_case(s, case) = s}

possible_cases(s) ==
    {case \in deterministic_cases : Converter_to_case(String_from_case(s, case), case) = s}

----------------------------------------------------------------------------
(* Inputs *)

MaxLen == 3

Alphabet == {"a", "B", "1", "_", "-", " ", ","}

RECURSIVE Strings(_)
Strings(n) ==
    IF n = 0 THEN {<<>>}
    ELSE LET shorter == Strings(n - 1)
         IN shorter \cup {Append(w, c) : w \in {v \in shorter : Len(v) = n - 1}, c \in Alphabet}

Examples == {ex_Lower, ex_Upper, ex_Title, ex_Camel, ex_Pascal, ex_Snake, ex_UpperSnake, ex_Kebab, ex_Cobol, ex_Toggle, ex_Train, ex_Alternating, im_snake_case, im_NOTsnake_case, im_kebab_case, im_not_kebab, im_kebab_actually, im_not_kebab_either, weird_var_name_in, weird_var_name, XMLHttpRequest, xml_http_request, IOStream, io_stream, all_boundaries_in, all_boundaries_out, E5150, e_5150, TenThousandDays, ten_thousand_days, ONE_TWO_THREE, One_two_three, asdf, asdfCase, cat_cali_in, cat_cali_snake, cat_cali_default}

Texts == Strings(MaxLen) \cup Examples

----------------------------------------------------------------------------
(* State machine.  text is the string the calls are made on; conv holds the *)
(* Converter while one is alive (<<>> when none is); out, flag and found    *)
(* are the value returned by the last call, out2 the value returned by a    *)
(* second to_case made on out; op names the last call, lastFrom and lastTo  *)
(* its case arguments ("default" when the call used Converter::new).        *)

Init ==
    /\ text \in Texts
    /\ conv = <<>>
    /\ out = <<>>
    /\ out2 = <<>>
    /\ flag = FALSE
    /\ found = {}
    /\ op = "init"
    /\ lastFrom = "none"
    /\ lastTo = "none"

\* A Converter is alive and the chain of calls on it has not yet returned a
\* value.  A behaviour is one chain of calls on text, and it ends with the
\* call that returns a String or a bool; is_case only borrows the Converter,
\* so the calls that could follow it lead to the states that are reachable
\* without it.
Staged == conv # <<>> /\ op \in {"str_from_case", "from_case"}

\* text.to_case(case)
StrToCase ==
    \E case \in Case :
        /\ op = "init"
        /\ out' = str_to_case(text, case)
        /\ op' = "str_to_case"
        /\ lastFrom' = "default"
        /\ lastTo' = case
        /\ UNCHANGED <<text, conv, out2, flag, found>>

\* text.to_case(case).to_case(case): the String returned by the first call
\* is the receiver of the second.
StringToCase ==
    \E case \in Case :
        /\ op = "str_to_case"
        /\ case = lastTo
        /\ out2' = String_to_case(out, case)
        /\ op' = "String_to_case"
        /\ UNCHANGED <<text, conv, out, flag, found, lastFrom, lastTo>>

\* text.is_case(case), text being a &str or a String
StrIsCase ==
    \E case \in Case, receiver \in {"str", "String"} :
        /\ op = "init"
        /\ flag' = IF receiver = "str" THEN str_is_case(text, case) ELSE String_is_case(text, case)
        /\ op' = "str_is_case"
        /\ lastFrom' = "default"
        /\ lastTo' = case
        /\ UNCHANGED <<text, conv, out, out2, found>>

\* possible_cases(&text)
PossibleCases ==
    /\ op = "init"
    /\ found' = possible_cases(text)
    /\ op' = "possible_cases"
    /\ UNCHANGED <<text, conv, out, out2, flag, lastFrom, lastTo>>

\* text.from_case(case): a Converter comes into being
StrFromCase ==
    \E case \in Case :
        /\ op = "init"
        /\ conv' = <<str_from_case(text, case)>>
        /\ op' = "str_from_case"
        /\ lastFrom' = case
        /\ UNCHANGED <<text, out, out2, flag, found, lastTo>>

\* converter.from_case(case)
ConverterFromCase ==
    \E case \in Case :
        /\ Staged
        /\ conv' = <<Converter_from_case(conv[1], case)>>
        /\ op' = "from_case"
        /\ lastFrom' = case
        /\ flag' = FALSE
        /\ lastTo' = "none"
        /\ UNCHANGED <<text, out, out2, found>>

\* converter.to_case(case): consumes the Converter
ConverterToCase ==
    \E case \in Case :
        /\ Staged
        /\ out' = Converter_to_case(conv[1], case)
        /\ conv' = <<>>
        /\ op' = "to_case"
        /\ lastTo' = case
        /\ flag' = FALSE
        /\ UNCHANGED <<text, out2, found, lastFrom>>

\* converter.convert(): consumes the Converter
ConverterConvert ==
    /\ Staged
    /\ out' = Converter_convert(conv[1])
    /\ conv' = <<>>
    /\ op' = "convert"
    /\ lastTo' = "none"
    /\ flag' = FALSE
    /\ UNCHANGED <<text, out2, found, lastFrom>>

\* converter.is_case(case): borrows the Converter
ConverterIsCase ==
    \E case \in Case :
        /\ Staged
        /\ flag' = Converter_is_case(conv[1], case)
        /\ op' = "is_case"
        /\ lastTo' = case
        /\ UNCHANGED <<text, conv, out, out2, found, lastFrom>>

Next ==
    \/ StrToCase
    \/ StringToCase
    \/ StrIsCase
    \/ PossibleCases
    \/ StrFromCase
    \/ ConverterFromCase
    \/ ConverterToCase
    \/ ConverterConvert
    \/ ConverterIsCase

Spec == Init /\ [][Next]_vars

----------------------------------------------------------------------------
(* The contract function of spec 4.5 and vocabulary for the properties *)

convert(s, bs, p, d) == join(mutate(p, split(s, bs)), d)

\* The nine boundaries the default boundary set is said to consist of.
NineBoundaries == {"Underscore", "Hyphen", "Space", "LowerUpper", "UpperDigit", "DigitUpper", "DigitLower", "LowerDigit", "Acronyms"}

\* The twelve cases of the round-trip table and their renderings of
\* "my variable 22 name".
TwelveCases == {"Lower", "Upper", "Title", "Camel", "Pascal", "Snake", "UpperSnake", "Kebab", "Cobol", "Toggle", "Train", "Alternating"}

rendering(case) ==
    CASE case = "Lower" -> ex_Lower
      [] case = "Upper" -> ex_Upper
      [] case = "Title" -> ex_Title
      [] case = "Camel" -> ex_Camel
      [] case = "Pascal" -> ex_Pascal
      [] case = "Snake" -> ex_Snake
      [] case = "UpperSnake" -> ex_UpperSnake
      [] case = "Kebab" -> ex_Kebab
      [] case = "Cobol" -> ex_Cobol
      [] case = "Toggle" -> ex_Toggle
      [] case = "Train" -> ex_Train
      [] case = "Alternating" -> ex_Alternating

RECURSIVE PrefixLen(_, _)
PrefixLen(words, k) == IF k = 0 THEN 0 ELSE Len(words[k]) + PrefixLen(words, k - 1)

\* Number of characters among s[1..i] that are not consumed as delimiters.
Kept(s, bs, i) == Cardinality({j \in 1..i : ~is_delimiter(s[j], bs)})

\* words being split(s, bs): one of them ends with s[i] and the next one
\* starts with s[i+1].
BreakAfter(words, s, bs, i) ==
    \E k \in 1..(Len(words) - 1) : PrefixLen(words, k) = Kept(s, bs, i)

NoEmptyWord(s, bs) ==
    LET words == split(s, bs)
    IN \A k \in 1..Len(words) : words[k] # <<>>

OnlyDelimiters(s, bs) == \A i \in 1..Len(s) : is_delimiter(s[i], bs)

is_symbol(c) == ~is_cased(c) /\ ~is_digit(c) /\ c \notin {"_", "-", " "}

\* Inside a run of uppercase letters there is a break after s[i] exactly
\* when s[i+1] is the last uppercase letter and a lowercase letter follows.
AcronymRule(s, bs) ==
    LET words == split(s, bs)
    IN \A i \in 1..(Len(s) - 1) :
           is_uppercase(s[i]) /\ is_uppercase(s[i+1])
           => (BreakAfter(words, s, bs, i) <=> (i + 2 <= Len(s) /\ is_lowercase(s[i+2])))

\* A break between every adjacent letter and digit, none next to a symbol.
DigitRule(s, bs) ==
    LET words == split(s, bs)
    IN \A i \in 1..(Len(s) - 1) :
           /\ (is_cased(s[i]) /\ is_digit(s[i+1])) \/ (is_digit(s[i]) /\ is_cased(s[i+1]))
              => BreakAfter(words, s, bs, i)
           /\ (is_symbol(s[i]) /\ ~is_delimiter(s[i+1], bs)) \/ (is_symbol(s[i+1]) /\ ~is_delimiter(s[i], bs))
              => ~BreakAfter(words, s, bs, i)

----------------------------------------------------------------------------
(* Properties *)

\* C1: round trip over the twelve cases: the rendering of "my variable 22
\* name" in case B, parsed with from_case(B) and converted with to_case(A),
\* is the rendering in case A.
C1_RoundTrip ==
    (op = "to_case" /\ lastFrom \in TwelveCases /\ lastTo \in TwelveCases /\ text = rendering(lastFrom))
    => out = rendering(lastTo)

C1_Witness ==
    op = "to_case" /\ text = ex_Toggle /\ lastFrom = "Toggle" /\ lastTo = "Camel" /\ out = ex_Camel

\* C2 as stated: to_case applied twice with the same case gives what one
\* application gives, for every case and every string.
C2_IdempotentEveryCase == op = "String_to_case" => out2 = out

\* The cases whose rendering parses back, under the default boundaries, into
\* words that render the same.
IdempotentCases == {"Lower", "Upper", "Title", "Snake", "UpperSnake", "Kebab", "Cobol", "Train", "Flat"}

\* C2 amended: to_case applied twice with the same case gives what one
\* application gives, for the cases Lower, Upper, Title, Snake, UpperSnake,
\* Kebab, Cobol, Train and Flat (and ASCII strings).
C2_IdempotentUniformCases ==
    (op = "String_to_case" /\ lastTo \in IdempotentCases) => out2 = out

C2_Witness ==
    op = "String_to_case" /\ lastTo = "Title" /\ out # text /\ Len(out) > Len(text) /\ out2 = out

\* C3: text.is_case(C) is true exactly when converting text with the nine
\* default boundaries and C's pattern and delimiter returns text; the four
\* examples of the tests come out true, false, true, false.
C3_IsCaseFixedPoint ==
    op = "str_is_case" =>
        /\ flag = (convert(text, NineBoundaries, pattern(lastTo), delim(lastTo)) = text)
        /\ (text = im_snake_case /\ lastTo = "Snake" => flag)
        /\ (text = im_kebab_case /\ lastTo = "Kebab" => flag)
        /\ (text = im_NOTsnake_case /\ lastTo = "Snake" => ~flag)
        /\ (text = im_not_kebab /\ lastTo = "Kebab" => ~flag)

C3_Witness ==
    op = "str_is_case" /\ text = im_snake_case /\ lastTo = "Snake" /\ flag

\* C4: text.from_case(B).is_case(C) is true exactly when segmenting text with
\* B's boundaries and rendering with C's pattern and delimiter gives text;
\* the four examples of the tests come out true, true, false, false.
C4_IsCaseHonoursSourceCase ==
    op = "is_case" =>
        /\ flag = (convert(text, boundaries(lastFrom), pattern(lastTo), delim(lastTo)) = text)
        /\ (text = im_kebab_actually /\ lastFrom = "Upper" /\ lastTo = "Kebab") => flag
        /\ (text = im_kebab_case /\ lastFrom = "Upper" /\ lastTo = "Kebab") => flag
        /\ (text = im_not_kebab /\ lastFrom = "Snake" /\ lastTo = "Kebab") => ~flag
        /\ (text = im_not_kebab_either /\ lastFrom = "Snake" /\ lastTo = "Kebab") => ~flag

\* C5: the segmenter emits no empty word; a text made only of active
\* delimiters, the empty text included, converts to the empty string for
\* every source and target case; "__weird--var _name-" gives
\* "weird_var_name" in Snake.
C5_DelimiterCollapse ==
    /\ Staged => NoEmptyWord(conv[1].s, conv[1].boundaries)
    /\ op = "init" => NoEmptyWord(text, Converter_new(text).boundaries)
    /\ (op = "to_case" /\ OnlyDelimiters(text, boundaries(lastFrom))) => out = <<>>
    /\ (op = "str_to_case" /\ OnlyDelimiters(text, NineBoundaries)) => out = <<>>
    /\ (op = "str_to_case" /\ text = weird_var_name_in /\ lastTo = "Snake") => out = weird_var_name

C5_Witness ==
    op = "to_case" /\ Len(text) = 2 /\ OnlyDelimiters(text, boundaries(lastFrom)) /\ out = <<>>

\* C6: with the boundaries of Camel, UpperCamel or Pascal, or the default
\* set, a run of uppercase letters followed by a lowercase letter is split
\* before its last uppercase letter and nowhere else inside the run;
\* "XMLHttpRequest", "IOStream" and "ABC-abc_abcAbc ABCAbc" give
\* "xml_http_request", "io_stream" and "abc_abc_abc_abc_abc_abc" in Snake.
C6_AcronymGrouping ==
    /\ (Staged /\ lastFrom \in {"Camel", "UpperCamel", "Pascal"})
       => /\ AcronymRule(conv[1].s, conv[1].boundaries)
          /\ conv[1].s = XMLHttpRequest => split(conv[1].s, conv[1].boundaries) = <<<<"X", "M", "L">>, <<"H", "t", "t", "p">>, <<"R", "e", "q", "u", "e", "s", "t">>>>
    /\ op = "init" => AcronymRule(text, Converter_new(text).boundaries)
    /\ (op = "to_case" /\ lastFrom \in {"Camel", "UpperCamel", "Pascal"} /\ lastTo = "Snake" /\ text = XMLHttpRequest)
       => out = xml_http_request
    /\ (op = "str_to_case" /\ lastTo = "Snake")
       => /\ text = XMLHttpRequest => out = xml_http_request
          /\ text = IOStream => out = io_stream
          /\ text = all_boundaries_in => out = all_boundaries_out

C6_Witness ==
    op = "to_case" /\ lastFrom = "Pascal" /\ lastTo = "Snake" /\ text = XMLHttpRequest /\ out = xml_http_request

\* C7: under the default boundaries there is a break between every adjacent
\* letter and digit and none at a character that is neither a letter, a
\* digit nor a delimiter; such characters reach the output unchanged;
\* "E5150" gives "e_5150", "10,000Days" gives "10,000_days" and
\* "ONE\nTWO\nTHREE" gives "One\ntwo\nthree" in Title.
C7_DigitsAndSymbols ==
    /\ op = "init" => DigitRule(text, Converter_new(text).boundaries)
    /\ op = "str_to_case"
       => /\ SelectSeq(out, is_symbol) = SelectSeq(text, is_symbol)
          /\ (text = E5150 /\ lastTo = "Snake") => out = e_5150
          /\ (text = TenThousandDays /\ lastTo = "Snake") => out = ten_thousand_days
          /\ (text = ONE_TWO_THREE /\ lastTo = "Title") => out = One_two_three
    /\ (op = "init" /\ text = E5150) => split(text, Converter_new(text).boundaries) = <<<<"E">>, <<"5", "1", "5", "0">>>>
    /\ (op = "init" /\ text = TenThousandDays) => split(text, Converter_new(text).boundaries) = <<<<"1", "0", ",", "0", "0", "0">>, <<"D", "a", "y", "s">>>>

C7_Witness ==
    op = "str_to_case" /\ text = TenThousandDays /\ lastTo = "Snake" /\ out = ten_thousand_days

\* C8: possible_cases(s) is the set of deterministic cases C for which
\* parsing s with C's boundaries and rendering with C's pattern and delimiter
\* gives s; {Lower, Camel, Snake, Kebab, Flat} for "asdf", {Camel} for
\* "asdfCase".
C8_CaseDetection ==
    op = "possible_cases" =>
        /\ found = {c \in deterministic_cases : convert(text, boundaries(c), pattern(c), delim(c)) = text}
        /\ text = asdf => found = {"Lower", "Camel", "Snake", "Kebab", "Flat"}
        /\ text = asdfCase => found = {"Camel"}

C8_Witness ==
    op = "possible_cases" /\ text = asdfCase /\ found = {"Camel"}

\* C9 as stated: convert() on a Converter whose pattern and delimiter were
\* never set emits the words as they were segmented, no letter changing case.
C9_ConvertIsIdentityRendering ==
    op = "convert" => out = join(split(text, boundaries(lastFrom)), <<>>)

\* C9 amended: convert() on such a Converter renders with the Lowercase
\* pattern and the empty delimiter: the words, lowercased and concatenated.
C9_ConvertLowercases ==
    op = "convert" =>
        LET words == split(text, boundaries(lastFrom))
        IN out = join([k \in 1..Len(words) |-> lowercase(words[k])], <<>>)

C9_Witness ==
    op = "convert" /\ text = ex_Title /\ lastFrom = "Title" /\ out # join(split(text, boundaries(lastFrom)), <<>>)

\* C10: from_case(case) replaces the boundary set with exactly case's set and
\* leaves the string, pattern and delimiter as they were; to_case(A) then
\* gives join(mutate(segment(text, boundaries of the last from_case case),
\* pattern of A), delimiter of A); without from_case the nine default
\* boundaries are used.
C10_BoundaryStaging ==
    /\ conv # <<>>
       => conv[1] = [s |-> text, boundaries |-> boundaries(lastFrom), pattern |-> "Lowercase", delim |-> <<>>]
    /\ op = "to_case"
       => /\ out = convert(text, boundaries(lastFrom), pattern(lastTo), delim(lastTo))
          /\ (text = cat_cali_in /\ lastFrom = "Snake" /\ lastTo = "Title") => out = cat_cali_snake
    /\ op = "str_to_case"
       => /\ out = convert(text, NineBoundaries, pattern(lastTo), delim(lastTo))
          /\ (text = cat_cali_in /\ lastTo = "Title") => out = cat_cali_default

C10_Witness ==
    op = "to_case" /\ text = cat_cali_in /\ lastFrom = "Snake" /\ lastTo = "Title" /\ out = cat_cali_snake

====
